---- MODULE Spec2Model ----
(***************************************************************************)
(* Quote engines of phoenix-sdk-migration.                                 *)
(*                                                                         *)
(*   lifinity.go : constant-product pool LifinityLiquidity{A, B, _k} and   *)
(*                 its GetQuote (uint64 reserves, float64 invariant).      *)
(*   phoenix.go  : order-book ladder UiLadder{Asks, Bids} and Hoenix's     *)
(*                 GetQuote (float64 prices, sizes and amounts).           *)
(*                                                                         *)
(* The two files are two programs; each has its own specification          *)
(* (SpecLifinity, SpecHoenix) over its own variables, the other program's  *)
(* variables standing still.                                               *)
(*                                                                         *)
(* Numbers.  uint64 reserves are naturals (the bounds keep every sum and   *)
(* product far below 2^64); the one uint64 expression that can leave the   *)
(* range, outAmount, is kept as four 16-bit limbs so that its wrap-around  *)
(* is the value Go computes.  float64 quotients are computed exactly (as   *)
(* rationals <<n, d>>): within the bounds every float64 division that is   *)
(* truncated to an integer truncates to the exact floor, except that a     *)
(* chain of float64 operations whose exact result is an integer may land   *)
(* one unit in the last place below it; PriceImpactBP keeps both outcomes. *)
(* On the ladders below, float64 and exact arithmetic take the same branch *)
(* at every comparison and empty the same levels.                          *)
(***************************************************************************)
EXTENDS Integers, Sequences, FiniteSets, TLC

VARIABLES
    A,      \* LifinityLiquidity.A
    B,      \* LifinityLiquidity.B
    _k,     \* LifinityLiquidity._k
    calls,  \* number of LifinityLiquidity.GetQuote calls made so far
    last,   \* the last LifinityLiquidity.GetQuote call: arguments, receiver before it, results
    ladder, \* the caller's UiLadder, passed by pointer to every Hoenix.GetQuote
    TakerFeeBps, \* Hoenix.Data.TakerFeeBps
    hcalls, \* number of Hoenix.GetQuote calls made so far
    hlast   \* the last Hoenix.GetQuote call: arguments, ladder before it, results

hvars == <<ladder, TakerFeeBps, hcalls, hlast>>
vars == <<A, B, _k, calls, last, ladder, TakerFeeBps, hcalls, hlast>>

-----------------------------------------------------------------------------
(* Bounds *)

\* Number of GetQuote calls made on one pool / one ladder.
MaxCalls == 3

\* Small pools are constructed with reserves 1..MaxInitReserve on each side.
MaxInitReserve == 4

\* Small ladders hold sizes 0..MaxLevelSize on each level.
MaxLevelSize == 1

-----------------------------------------------------------------------------
(* Arithmetic helpers *)

Abs(x) == IF x < 0 THEN -x ELSE x

RECURSIVE Gcd(_, _)
Gcd(a, b) == IF b = 0 THEN a ELSE Gcd(b, a % b)

\* <<floor(r*m/d), (r*m) mod d>> for 0 <= r < d, computed without forming r*m.
RECURSIVE MulDivRem(_, _, _)
MulDivRem(r, m, d) ==
    IF m = 0 THEN <<0, 0>>
    ELSE LET h == MulDivRem(r, m \div 2, d)
             t == 2 * h[2] + (IF m % 2 = 1 THEN r ELSE 0)
         IN  <<2 * h[1] + t \div d, t % d>>

\* uint64 as four 16-bit limbs, least significant first.
Limb == 2^16

\* The uint64 holding the integer d (|d| < 2^31), i.e. d mod 2^64.
WrapU64(d) ==
    IF d >= 0
    THEN <<d % Limb, d \div Limb, 0, 0>>
    ELSE LET m  == -d
             m0 == m % Limb
             m1 == m \div Limb
             b0 == IF m0 > 0 THEN 1 ELSE 0
             l1 == (Limb - m1 - b0) % Limb
             b1 == IF m1 + b0 > 0 THEN 1 ELSE 0
         IN  <<(Limb - m0) % Limb, l1, (Limb - b1) % Limb, (Limb - b1) % Limb>>

\* A uint64 that fits the model's naturals.
IsSmallU64(u) == u[3] = 0 /\ u[4] = 0 /\ u[2] < 32768

\* Its value.
U64Val(u) == u[2] * Limb + u[1]

\* float64 amounts, prices and sizes of phoenix.go as exact rationals <<n, d>>,
\* d > 0, in lowest terms.
R(i) == <<i, 1>>

RNorm(n, d) ==
    IF n = 0 THEN <<0, 1>>
    ELSE LET g == Gcd(Abs(n), Abs(d))
             s == IF d < 0 THEN -1 ELSE 1
         IN  <<s * (n \div g), s * (d \div g)>>

RAdd(a, b) ==
    LET g == Gcd(a[2], b[2])
    IN  RNorm(a[1] * (b[2] \div g) + b[1] * (a[2] \div g), (a[2] \div g) * b[2])

RNeg(a) == <<-a[1], a[2]>>

RSub(a, b) == RAdd(a, RNeg(b))

RMul(a, b) ==
    IF a[1] = 0 \/ b[1] = 0 THEN <<0, 1>>
    ELSE LET g1 == Gcd(Abs(a[1]), b[2])
             g2 == Gcd(Abs(b[1]), a[2])
         IN  <<(a[1] \div g1) * (b[1] \div g2), (a[2] \div g2) * (b[2] \div g1)>>

\* a / b for b # 0
RDiv(a, b) == RMul(a, IF b[1] < 0 THEN <<-b[2], -b[1]>> ELSE <<b[2], b[1]>>)

\* a <= b
RLeq(a, b) ==
    LET g == Gcd(a[2], b[2])
    IN  a[1] * (b[2] \div g) <= b[1] * (a[2] \div g)

\* a >= b
RGeq(a, b) == RLeq(b, a)

\* a > b
RGt(a, b) == ~RLeq(a, b)

-----------------------------------------------------------------------------
(* lifinity.go *)

LifinityFeeRate == 50

FeeDenominator == 10000

\* NewLifinityLiquidity(a, b)
NewLifinityLiquidity(a, b) == [A |-> a, B |-> b, _k |-> a * b]

\* (l *LifinityLiquidity) Price(aToB), a float64 quotient kept as <<numerator, denominator>>
Price(l, aToB) == IF aToB THEN <<l.A, l.B>> ELSE <<l.B, l.A>>

\* (l *LifinityLiquidity) K()
K(l) == l._k

\* Mutant of feeAmount: the fee rounded up instead of truncated.
feeAmountRoundedUp(InAmount) ==
    (InAmount * LifinityFeeRate + FeeDenominator - 1) \div FeeDenominator

\* feeAmount := params.InAmount * LifinityFeeRate / 10_000   (uint64 division)
feeAmount(InAmount) == (InAmount * LifinityFeeRate) \div FeeDenominator

\* l.A + params.InAmount - feeAmount, resp. l.B + params.InAmount - feeAmount
afterInputReserve(reserve, InAmount) == reserve + InAmount - feeAmount(InAmount)

\* Mutant of afterOutputReserve: the quotient rounded up instead of truncated.
afterOutputReserveRoundedUp(k, after) == (k + after - 1) \div after

\* uint64(l.K() / float64(after)): the float64 quotient truncated toward zero
afterOutputReserve(k, after) == k \div after

\* outAmount = l.B - afterB - 1, resp. l.A - afterA - 1, in uint64
outAmount(reserve, after) == WrapU64(reserve - after - 1)

\* uint(math.Abs(afterPrice-beforePrice) / beforePrice * 10_000): the values the
\* conversion can yield.  The exact quotient is n/d; float64 yields its floor,
\* or, when n/d is a positive integer, possibly the integer below it.  Equal
\* prices subtract to exactly 0.
priceImpactBP(afterPrice, beforePrice) ==
    LET n  == Abs(afterPrice[1] * beforePrice[2] - beforePrice[1] * afterPrice[2])
        d  == afterPrice[2] * beforePrice[1]
        qr == MulDivRem(n % d, FeeDenominator, d)
        x  == (n \div d) * FeeDenominator + qr[1]
    IN  IF n = 0 THEN {0}
        ELSE IF qr[2] = 0 THEN {x - 1, x}
        ELSE {x}

ErrAfterLiquidityZero == "afterLiquidity is zero"

NoQuote == [InAmount |-> 0, OutAmount |-> WrapU64(0), PriceImpactBP |-> 0]

\* Mutant of LifinityGetQuote: the reserves are stored before the zero check.
LifinityGetQuoteStoreFirst(l, params) ==
    LET afterA == IF params.AToB
                  THEN afterInputReserve(l.A, params.InAmount)
                  ELSE afterOutputReserve(K(l), afterInputReserve(l.B, params.InAmount))
        afterB == IF params.AToB
                  THEN afterOutputReserve(K(l), afterInputReserve(l.A, params.InAmount))
                  ELSE afterInputReserve(l.B, params.InAmount)
        out    == IF params.AToB THEN outAmount(l.B, afterB) ELSE outAmount(l.A, afterA)
        l2     == [l EXCEPT !.A = afterA, !.B = afterB]
    IN  IF afterA = 0 \/ afterB = 0
        THEN {[l |-> l2, quote |-> NoQuote, err |-> ErrAfterLiquidityZero]}
        ELSE {[l |-> l2,
               quote |-> [InAmount |-> params.InAmount, OutAmount |-> out,
                          PriceImpactBP |-> bp],
               err |-> ""]
              : bp \in priceImpactBP(<<afterA, afterB>>, Price(l2, params.AToB))}

\* (l *LifinityLiquidity) GetQuote(params): the set of outcomes
\* [l: the receiver after the call, quote, err ("" is nil)].
LifinityGetQuote(l, params) ==
    LET afterA == IF params.AToB
                  THEN afterInputReserve(l.A, params.InAmount)
                  ELSE afterOutputReserve(K(l), afterInputReserve(l.B, params.InAmount))
        afterB == IF params.AToB
                  THEN afterOutputReserve(K(l), afterInputReserve(l.A, params.InAmount))
                  ELSE afterInputReserve(l.B, params.InAmount)
        out    == IF params.AToB THEN outAmount(l.B, afterB) ELSE outAmount(l.A, afterA)
        l2     == [l EXCEPT !.A = afterA, !.B = afterB]
    IN  IF afterA = 0 \/ afterB = 0
        THEN {[l |-> l, quote |-> NoQuote, err |-> ErrAfterLiquidityZero]}
        ELSE {[l |-> l2,
               quote |-> [InAmount |-> params.InAmount, OutAmount |-> out,
                          PriceImpactBP |-> bp],
               err |-> ""]
              : bp \in priceImpactBP(<<afterA, afterB>>, Price(l2, params.AToB))}

-----------------------------------------------------------------------------
(* phoenix.go *)

FeeScale == 10000

\* type Side: Bid = iota, Ask
Bid == 0

Ask == 1

ErrInputAmount == "input amount must be greater than zero"

ErrQuoteUnits == "quote units must be greater than zero"

ErrBaseUnits == "base units must be greater than zero"

ErrNotEnoughToFulfill == "not enough liquidity to fulfill the trade"

ErrNotEnoughForAmount == "not enough liquidity for the requested amount"

ErrNoMoreAsksOrBids == "updated ladder has no more asks or bids"

\* UiLadderLevel{Price, Quantity}
UiLadderLevel(price, quantity) == [Price |-> R(price), Quantity |-> R(quantity)]

\* (h *Hoenix) applyTakerFee(amount, takerFeeBps)
applyTakerFee(amount, takerFeeBps) ==
    RDiv(amount, RAdd(R(1), RDiv(takerFeeBps, R(FeeScale))))

\* The loop of calculateBaseAmountFromQuoteBudget from level i on:
\* <<baseAmount, quoteBudget>> when the loop ends.  The loop reads the levels
\* (for _, level := range asks) and writes none.
RECURSIVE baseAmountLoop(_, _, _, _)
baseAmountLoop(asks, i, baseAmount, quoteBudget) ==
    IF i > Len(asks) THEN <<baseAmount, quoteBudget>>
    ELSE LET level == asks[i]
             notional == RMul(level.Price, level.Quantity)
         IN  IF RGeq(notional, quoteBudget)
             THEN <<RAdd(baseAmount, RDiv(quoteBudget, level.Price)), R(0)>>
             ELSE LET budget == RSub(quoteBudget, notional)
                      base   == RAdd(baseAmount, level.Quantity)
                  IN  IF RLeq(budget, R(0))
                      THEN <<base, budget>>
                      ELSE baseAmountLoop(asks, i + 1, base, budget)

\* (h *Hoenix) calculateBaseAmountFromQuoteBudget(asks, quoteBudget)
calculateBaseAmountFromQuoteBudget(asks, quoteBudget) ==
    LET r == baseAmountLoop(asks, 1, R(0), quoteBudget)
    IN  [amount |-> r[1],
         err |-> IF RGt(r[2], R(0)) THEN ErrNotEnoughToFulfill ELSE ""]

\* The loop of calculateQuoteAmountFromBaseBudget from level i on.
RECURSIVE quoteAmountLoop(_, _, _, _)
quoteAmountLoop(bids, i, quoteAmount, baseBudget) ==
    IF i > Len(bids) THEN <<quoteAmount, baseBudget>>
    ELSE LET level == bids[i]
         IN  IF RGeq(level.Quantity, baseBudget)
             THEN <<RAdd(quoteAmount, RMul(baseBudget, level.Price)), R(0)>>
             ELSE LET budget == RSub(baseBudget, level.Quantity)
                      quote  == RAdd(quoteAmount, RMul(level.Quantity, level.Price))
                  IN  IF RLeq(budget, R(0))
                      THEN <<quote, budget>>
                      ELSE quoteAmountLoop(bids, i + 1, quote, budget)

\* (h *Hoenix) calculateQuoteAmountFromBaseBudget(bids, baseBudget)
calculateQuoteAmountFromBaseBudget(bids, baseBudget) ==
    LET r == quoteAmountLoop(bids, 1, R(0), baseBudget)
    IN  [amount |-> r[1],
         err |-> IF RGt(r[2], R(0)) THEN ErrNotEnoughToFulfill ELSE ""]

\* (h *Hoenix) getBaseUnitsOutFromQuoteUnitsIn(asks, quoteUnitsIn)
getBaseUnitsOutFromQuoteUnitsIn(asks, quoteUnitsIn) ==
    IF RLeq(quoteUnitsIn, R(0))
    THEN [amount |-> R(0), err |-> ErrQuoteUnits]
    ELSE calculateBaseAmountFromQuoteBudget(asks, quoteUnitsIn)

\* (h *Hoenix) getQuoteUnitsOutFromBaseUnitsIn(bids, baseUnitsIn)
getQuoteUnitsOutFromBaseUnitsIn(bids, baseUnitsIn) ==
    IF RLeq(baseUnitsIn, R(0))
    THEN [amount |-> R(0), err |-> ErrBaseUnits]
    ELSE calculateQuoteAmountFromBaseBudget(bids, baseUnitsIn)

\* (h *Hoenix) getExpectedOutAmount(uiLadder, side, takerFeeBps, inAmount)
getExpectedOutAmount(uiLadder, side, takerFeeBps, inAmount) ==
    IF RLeq(inAmount, R(0))
    THEN [amount |-> R(0), err |-> ErrInputAmount]
    ELSE LET adjustedAmount == applyTakerFee(inAmount, takerFeeBps)
         IN  IF side = Bid
             THEN getBaseUnitsOutFromQuoteUnitsIn(uiLadder.Asks, adjustedAmount)
             ELSE getQuoteUnitsOutFromBaseUnitsIn(uiLadder.Bids, adjustedAmount)

\* One side's loop of updateLadderLiquidity from level i on.
RECURSIVE updateLevels(_, _, _)
updateLevels(levels, i, amount) ==
    IF i > Len(levels) THEN levels
    ELSE IF RGeq(levels[i].Quantity, amount)
         THEN [levels EXCEPT ![i].Quantity = RSub(levels[i].Quantity, amount)]
         ELSE updateLevels([levels EXCEPT ![i].Quantity = R(0)], i + 1,
                           RSub(amount, levels[i].Quantity))

\* Mutant of updateLadderLiquidity: the first level is charged the whole amount,
\* whatever its size.
updateLadderLiquidityUncapped(uiLadder, side, amount) ==
    LET charge(levels) ==
            IF Len(levels) = 0 THEN levels
            ELSE [levels EXCEPT ![1].Quantity = RSub(levels[1].Quantity, amount)]
    IN  IF side = Bid
        THEN [uiLadder EXCEPT !.Bids = charge(uiLadder.Bids)]
        ELSE [uiLadder EXCEPT !.Asks = charge(uiLadder.Asks)]

\* (h *Hoenix) updateLadderLiquidity(ladder, side, amount): the ladder after it
updateLadderLiquidity(uiLadder, side, amount) ==
    IF side = Bid
    THEN [uiLadder EXCEPT !.Bids = updateLevels(uiLadder.Bids, 1, amount)]
    ELSE [uiLadder EXCEPT !.Asks = updateLevels(uiLadder.Asks, 1, amount)]

NoHQuote == [InAmount |-> R(0), OutAmount |-> R(0)]

\* Every level of a side emptied.
Emptied(levels) == [i \in 1..Len(levels) |-> [levels[i] EXCEPT !.Quantity = R(0)]]

\* Mutant of HoenixGetQuote: a walk that runs out of levels leaves the levels it
\* passed over emptied in the caller's ladder.
HoenixGetQuoteDepleting(takerFeeBps, params, uiLadder) ==
    LET side     == IF params.AToB THEN Bid ELSE Ask
        expected == getExpectedOutAmount(uiLadder, side, takerFeeBps, params.InAmount)
        updated  == IF params.AToB
                    THEN updateLadderLiquidity(uiLadder, Ask, expected.amount)
                    ELSE updateLadderLiquidity(uiLadder, Bid, params.InAmount)
    IN  IF expected.err # ""
        THEN IF expected.err = ErrNotEnoughToFulfill
             THEN [ladder |-> IF params.AToB
                              THEN [uiLadder EXCEPT !.Asks = Emptied(uiLadder.Asks)]
                              ELSE [uiLadder EXCEPT !.Bids = Emptied(uiLadder.Bids)],
                   quote |-> NoHQuote, err |-> ErrNotEnoughForAmount]
             ELSE [ladder |-> uiLadder, quote |-> NoHQuote, err |-> expected.err]
        ELSE IF Len(updated.Asks) = 0 \/ Len(updated.Bids) = 0
             THEN [ladder |-> updated, quote |-> NoHQuote, err |-> ErrNoMoreAsksOrBids]
             ELSE [ladder |-> updated,
                   quote |-> [InAmount |-> params.InAmount, OutAmount |-> expected.amount],
                   err |-> ""]

\* (h *Hoenix) GetQuote(params, ladder):
\* [ladder: the caller's ladder after the call, quote, err ("" is nil)].
HoenixGetQuote(takerFeeBps, params, uiLadder) ==
    LET side     == IF params.AToB THEN Bid ELSE Ask
        expected == getExpectedOutAmount(uiLadder, side, takerFeeBps, params.InAmount)
        updated  == IF params.AToB
                    THEN updateLadderLiquidity(uiLadder, Ask, expected.amount)
                    ELSE updateLadderLiquidity(uiLadder, Bid, params.InAmount)
    IN  IF expected.err # ""
        THEN IF expected.err = ErrNotEnoughToFulfill
             THEN [ladder |-> uiLadder, quote |-> NoHQuote, err |-> ErrNotEnoughForAmount]
             ELSE [ladder |-> uiLadder, quote |-> NoHQuote, err |-> expected.err]
        ELSE IF Len(updated.Asks) = 0 \/ Len(updated.Bids) = 0
             THEN [ladder |-> updated, quote |-> NoHQuote, err |-> ErrNoMoreAsksOrBids]
             ELSE [ladder |-> updated,
                   quote |-> [InAmount |-> params.InAmount, OutAmount |-> expected.amount],
                   err |-> ""]

\* The ladder of phoenix.go's main and of the specification's scenario.
MainLadder ==
    [Bids |-> <<UiLadderLevel(20, 10), UiLadderLevel(15, 5), UiLadderLevel(10, 2)>>,
     Asks |-> <<UiLadderLevel(25, 10), UiLadderLevel(30, 5), UiLadderLevel(35, 2)>>]

\* Small sorted ladders with sizes 0..MaxLevelSize, and the same with one side
\* holding no level at all.
SmallLadders ==
    LET sizes == 0..MaxLevelSize
    IN  {[Asks |-> <<UiLadderLevel(2, q1), UiLadderLevel(4, q2)>>,
          Bids |-> <<UiLadderLevel(1, q3)>>] : q1 \in sizes, q2 \in sizes, q3 \in sizes}
        \cup {[Asks |-> <<UiLadderLevel(2, q1)>>, Bids |-> <<>>] : q1 \in sizes}
        \cup {[Asks |-> <<>>, Bids |-> <<UiLadderLevel(1, q3)>>] : q3 \in sizes}

Ladders == {MainLadder} \cup SmallLadders

\* Taker fees: none, and main's 5 basis points.
TakerFees == {0, 5}

\* Input amounts of either sign.
HInAmounts == {R(-1), R(0), R(1), R(5), R(150), R(470), R(1000)}

\* No ladder, for the pool's specification.
NoLadder == [Asks |-> <<>>, Bids |-> <<>>]

NoHCall == [called |-> FALSE, params |-> [InAmount |-> R(0), AToB |-> TRUE],
            before |-> NoLadder, quote |-> NoHQuote, err |-> ""]

\* The pool of lifinity.go's main and of the specification's scenario.
MainPool == <<1000, 20000>>

\* Pools the caller may construct (non-zero reserves).
Pools == {MainPool} \cup ((1..MaxInitReserve) \X (1..MaxInitReserve))

\* Input amounts: none, one unit, main's 10 and 500, and the first amount that pays a fee.
InAmounts == {0, 1, 10, 200, 500}

NoCall == [called |-> FALSE, params |-> [InAmount |-> 0, AToB |-> TRUE],
           before |-> [A |-> 0, B |-> 0, _k |-> 0], quote |-> NoQuote, err |-> ""]

InitLifinity ==
    /\ \E p \in Pools :
          LET l == NewLifinityLiquidity(p[1], p[2])
          IN  A = l.A /\ B = l.B /\ _k = l._k
    /\ calls = 0
    /\ last = NoCall
    /\ ladder = NoLadder /\ TakerFeeBps = 0 /\ hcalls = 0 /\ hlast = NoHCall

\* quote, err := liquidity.GetQuote(params)
GetQuote(InAmount, AToB) ==
    /\ calls < MaxCalls
    /\ LET l      == [A |-> A, B |-> B, _k |-> _k]
           params == [InAmount |-> InAmount, AToB |-> AToB]
       IN  \E r \in LifinityGetQuote(l, params) :
              /\ A' = r.l.A
              /\ B' = r.l.B
              /\ _k' = r.l._k
              /\ last' = [called |-> TRUE, params |-> params, before |-> l,
                          quote |-> r.quote, err |-> r.err]
    /\ calls' = calls + 1
    /\ UNCHANGED hvars

NextLifinity == \E InAmount \in InAmounts, AToB \in BOOLEAN : GetQuote(InAmount, AToB)

SpecLifinity == InitLifinity /\ [][NextLifinity]_vars


InitHoenix ==
    /\ ladder \in Ladders
    /\ TakerFeeBps \in TakerFees
    /\ hcalls = 0
    /\ hlast = NoHCall
    /\ A = 0 /\ B = 0 /\ _k = 0 /\ calls = 0 /\ last = NoCall

\* q, updatedLadder, err := hoenix.GetQuote(quoteParams, &ladder)
HGetQuote(InAmount, AToB) ==
    /\ hcalls < MaxCalls
    /\ LET params == [InAmount |-> InAmount, AToB |-> AToB]
           r      == HoenixGetQuote(R(TakerFeeBps), params, ladder)
       IN  /\ ladder' = r.ladder
           /\ hlast' = [called |-> TRUE, params |-> params, before |-> ladder,
                        quote |-> r.quote, err |-> r.err]
    /\ hcalls' = hcalls + 1
    /\ UNCHANGED <<TakerFeeBps, A, B, _k, calls, last>>

NextHoenix == \E InAmount \in HInAmounts, AToB \in BOOLEAN : HGetQuote(InAmount, AToB)

SpecHoenix == InitHoenix /\ [][NextHoenix]_vars

-----------------------------------------------------------------------------
(* Properties of lifinity.go *)

\* The receiver as it is now.
Pool == [A |-> A, B |-> B, _k |-> _k]

Succeeded == last.called /\ last.err = ""

Failed == last.called /\ last.err # ""

\* Input-side and output-side reserve of a pool for a direction.
ReserveIn(l, aToB) == IF aToB THEN l.A ELSE l.B

ReserveOut(l, aToB) == IF aToB THEN l.B ELSE l.A

\* C1: a GetQuote call with InAmount = 0 returns an error and leaves A, B and
\* _k as they were, in both directions and from every reachable pool.
C1_ZeroInputRejected ==
    (last.called /\ last.params.InAmount = 0) =>
        (last.err # "" /\ Pool = last.before)

\* C2: a successful GetQuote call with InAmount > 0 returns an OutAmount that is
\* the non-negative integer (output reserve before - output reserve after - 1),
\* so never more than the output reserve before the call: the uint64
\* subtraction does not wrap around.
C2_PayoutWithinReserve ==
    (Succeeded /\ last.params.InAmount > 0) =>
        LET before == ReserveOut(last.before, last.params.AToB)
            after  == ReserveOut(Pool, last.params.AToB)
        IN  /\ IsSmallU64(last.quote.OutAmount)
            /\ before - after - 1 >= 0
            /\ U64Val(last.quote.OutAmount) = before - after - 1
            /\ U64Val(last.quote.OutAmount) <= before

C4_FailedQuoteIsNoOp ==
    Failed =>
        /\ Pool = last.before
        /\ \A r \in LifinityGetQuote(Pool, last.params) :
              r.err = last.err /\ r.l = Pool

\* C4 witness: a call failed on a pool that an earlier successful call had moved.
C4_Witness ==
    Failed /\ last.err = ErrAfterLiquidityZero /\ calls >= 2
        /\ last.before.A * last.before.B < _k

\* C8: the PriceImpactBP of a successful GetQuote call is
\* floor(|p_after - p_before| / p_before * 10000), p_before being the price
\* (in the trade direction) of the reserves before the call and p_after that of
\* the updated reserves; and quote(10, AtoB) on the pool (1000, 20000) returns
\* a strictly positive PriceImpactBP.
C8_PriceImpactPreVersusPost ==
    Succeeded =>
        /\ last.quote.PriceImpactBP \in
              priceImpactBP(Price(Pool, last.params.AToB),
                            Price(last.before, last.params.AToB))
        /\ (last.before.A = MainPool[1] /\ last.before.B = MainPool[2]
                /\ last.params = [InAmount |-> 10, AToB |-> TRUE])
             => last.quote.PriceImpactBP > 0

\* C9: a successful GetQuote call with InAmount > 0 adds
\* floor(InAmount * 9950 / 10000) to the input-side reserve.
C9_FeeDeductionTruncated ==
    (Succeeded /\ last.params.InAmount > 0) =>
        ReserveIn(Pool, last.params.AToB) =
            ReserveIn(last.before, last.params.AToB)
                + (last.params.InAmount * (FeeDenominator - LifinityFeeRate))
                      \div FeeDenominator

\* C9 as amended: a successful GetQuote call with InAmount > 0 adds InAmount
\* less the truncated fee, which is InAmount * 9950 / 10000 rounded up, to the
\* input-side reserve.
C9_FeeDeductionRoundedUp ==
    (Succeeded /\ last.params.InAmount > 0) =>
        ReserveIn(Pool, last.params.AToB) =
            ReserveIn(last.before, last.params.AToB)
                + (last.params.InAmount * (FeeDenominator - LifinityFeeRate)
                       + FeeDenominator - 1) \div FeeDenominator

\* C9 witness: a successful call whose fee is not zero.
C9_Witness ==
    Succeeded /\ last.params.InAmount >= 200
        /\ ReserveIn(Pool, last.params.AToB)
               < ReserveIn(last.before, last.params.AToB) + last.params.InAmount

-----------------------------------------------------------------------------
(* Properties of phoenix.go *)

\* The side GetQuote walks: asks for AToB, bids otherwise.
WalkedSide(uiLadder, aToB) == IF aToB THEN uiLadder.Asks ELSE uiLadder.Bids

RECURSIVE TotalFrom(_, _)
TotalFrom(levels, i) ==
    IF i > Len(levels) THEN R(0)
    ELSE RAdd(levels[i].Quantity, TotalFrom(levels, i + 1))

\* Total size of a side.
TotalQuantity(levels) == TotalFrom(levels, 1)

\* Every level of a side has size 0.
NoLiquidity(levels) == \A i \in 1..Len(levels) : levels[i].Quantity = R(0)

HSucceeded == hlast.called /\ hlast.err = ""

\* C5: a GetQuote call that fails for lack of liquidity leaves the levels its
\* walk passed over (all of the walked side) at size zero in the caller's
\* ladder, so that a ladder that held liquidity there differs from the ladder
\* before the call.
C5_FailureLeavesLevelsDepleted ==
    (hlast.called /\ hlast.err = ErrNotEnoughForAmount) =>
        /\ NoLiquidity(WalkedSide(ladder, hlast.params.AToB))
        /\ ~NoLiquidity(WalkedSide(hlast.before, hlast.params.AToB))
              => ladder # hlast.before

\* C5 as amended: a GetQuote call that fails for lack of liquidity leaves the
\* caller's ladder exactly as it was before the call.
C5_FailureLeavesLadderUnchanged ==
    (hlast.called /\ hlast.err = ErrNotEnoughForAmount) => ladder = hlast.before

\* C5 witness: the call failed for lack of liquidity after walking over levels
\* that hold liquidity.
C5_Witness ==
    /\ hlast.called /\ hlast.err = ErrNotEnoughForAmount
    /\ \E i \in 1..Len(WalkedSide(hlast.before, hlast.params.AToB)) :
          RGt(WalkedSide(hlast.before, hlast.params.AToB)[i].Quantity, R(0))

\* C6: a GetQuote call that computed its output and whose update took the last
\* remaining size of the side it updates (every level of it now has size 0)
\* returns the error "updated ladder has no more asks or bids" instead of a
\* Quote.
C6_ExhaustedLadderFlagged ==
    (hlast.called /\ hlast.err \in {"", ErrNoMoreAsksOrBids}
        /\ ~NoLiquidity(WalkedSide(hlast.before, hlast.params.AToB))
        /\ NoLiquidity(WalkedSide(ladder, hlast.params.AToB)))
      => hlast.err = ErrNoMoreAsksOrBids

\* C7: whatever the call (successful or failed, either direction, InAmount of
\* any sign), no level's Quantity is larger after it than before or negative,
\* and each side keeps its levels, their order and their prices.
C7_MonotonicDepletion ==
    hlast.called =>
        /\ Len(ladder.Asks) = Len(hlast.before.Asks)
        /\ Len(ladder.Bids) = Len(hlast.before.Bids)
        /\ \A i \in 1..Len(ladder.Asks) :
              /\ ladder.Asks[i].Price = hlast.before.Asks[i].Price
              /\ RLeq(ladder.Asks[i].Quantity, hlast.before.Asks[i].Quantity)
              /\ RGeq(ladder.Asks[i].Quantity, R(0))
        /\ \A i \in 1..Len(ladder.Bids) :
              /\ ladder.Bids[i].Price = hlast.before.Bids[i].Price
              /\ RLeq(ladder.Bids[i].Quantity, hlast.before.Bids[i].Quantity)
              /\ RGeq(ladder.Bids[i].Quantity, R(0))

\* C7 witness: a second or later call emptied one level and took part of the next.
C7_Witness ==
    /\ HSucceeded /\ hcalls >= 2
    /\ \E i \in 1..(Len(ladder.Asks) - 1) :
          /\ RGt(hlast.before.Asks[i].Quantity, R(0))
          /\ ladder.Asks[i].Quantity = R(0)
          /\ RGt(ladder.Asks[i + 1].Quantity, R(0))
          /\ RGt(hlast.before.Asks[i + 1].Quantity, ladder.Asks[i + 1].Quantity)

\* C10: after a successful GetQuote call the total size removed from the walked
\* side is the base amount the walk matched: OutAmount (asks) when AToB, the
\* fee-adjusted input InAmount / (1 + fee/10000) (bids) otherwise.
C10_DepletionMatchesWalk ==
    HSucceeded =>
        RSub(TotalQuantity(WalkedSide(hlast.before, hlast.params.AToB)),
             TotalQuantity(WalkedSide(ladder, hlast.params.AToB)))
          = IF hlast.params.AToB
            THEN hlast.quote.OutAmount
            ELSE applyTakerFee(hlast.params.InAmount, R(TakerFeeBps))

====
